---- MODULE Spec2Model ----
(***************************************************************************)
(* F1 race replay: the per-frame pipeline of sketch.js (draw and           *)
(* drawLeaderboard) and the gap engine recomputeGapsSFandMinisectors.      *)
(*                                                                         *)
(* Time is counted in whole simulation seconds.  The geometry of a frame   *)
(* (which gates the segment prevScreenPos -> current position crosses,     *)
(* inside each gate's half length) is the frame's input; everything the    *)
(* code does with a geometrically valid crossing is modelled from the      *)
(* source.                                                                 *)
(***************************************************************************)
EXTENDS Integers, Sequences, FiniteSets, TLC

\* ---------------------------------------------------------------- bounds
\* Last simulation second a frame may reach.
MaxTime == 8
\* Gate crossings presented to the detector over the whole replay.
MaxEvents == 3
\* FINAL_LAP is 72 in the source; the replay is scaled down so that the
\* finish is reached within MaxTime.
FINAL_LAP == 2

\* ------------------------------------------------------ program constants
TIME_OFFSET_SECONDS == 0
MIN_CROSSING_INTERVAL_SEC == 4
LAP_COUNT_START_DELAY_SEC == 1
\* The literal 20 of the "DNF and currently last" rule.
DNF_LAST_POSITION == 20
\* Number.NEGATIVE_INFINITY of the debounce stamps, and the -1e99 of the
\* recency of a driver that never crossed.
NegInf == -1000
NegHuge == -100000

\* ------------------------------------------------------------ replay data
\* The drivers of the replay, in DRIVER_NUMS order.  81 has no samples.
DRIVER_NUMS == <<4, 24, 81>>
\* Rows of drivers.csv, and the enumeration order of the integer-like keys
\* of lapCounts (ascending).
driverInfoRows == <<4, 24, 81>>
lapCountsKeys == <<4, 24, 81>>
Drivers == {DRIVER_NUMS[i] : i \in 1..Len(DRIVER_NUMS)}
PIT_START_DRIVERS == {24}
NoSampleDrivers == {81}
\* Seconds of the first sample, of the green flag and of the DNF of car 4.
carStartSec == 0
boardStartSec == carStartSec
RACE_START_ABS_SEC == 4
dnfTimesAbsSec == [dn \in {4} |-> 6]
\* Frame time step (deltaTime) in seconds, and the two slowest speed presets.
dt == 2
SPEED_PRESETS == {1, 2}
\* Number of minisector gates (miniGates.length).
K_MS == 2
Gates == 0..(K_MS - 1)

\* ------------------------------------------------------------- gap values
GapNone == [type |-> "none", gapSec |-> 0]      \* key absent from the map
GapNA == [type |-> "na", gapSec |-> 0]
GapLeader == [type |-> "leader", gapSec |-> 0]
GapTime(sec) == [type |-> "time", gapSec |-> sec]

Max(a, b) == IF a >= b THEN a ELSE b

VARIABLES
  raceTime, isPlaying, playbackSpeed, lastBoardAbsSec,
  prevScreenPos,
  lapCounts, lastCrossSec,
  miniCounts, lastMiniCrossSec, lastMiniCrossSecByGate,
  pitOverlayActive, lastPitEntryCrossSec,
  dnfOverlayActive,
  frozenDrivers, freezePos, freezePending,
  raceFinishTriggered, finishLeaderDn, awaitingFlag,
  revealedDrivers,
  baselineMiniAtGreen, baselinedAtGreen,
  gapsToLeader, gapsToAhead, currentLeader,
  miniSeqTimes, lastStableGaps, lastStableGapsAhead,
  positionsByLap, lastRecordedLap,
  rows, frozenOrder, viewportChanged, timeOffsetSeconds,
  counted, countedBefore, sfSinceFinish, nOffered, pipeline

progVars == <<raceTime, isPlaying, playbackSpeed, lastBoardAbsSec,
  prevScreenPos, lapCounts, lastCrossSec, miniCounts, lastMiniCrossSec,
  lastMiniCrossSecByGate, pitOverlayActive, lastPitEntryCrossSec,
  dnfOverlayActive, frozenDrivers, freezePos, freezePending,
  raceFinishTriggered, finishLeaderDn, awaitingFlag, revealedDrivers,
  baselineMiniAtGreen, baselinedAtGreen, gapsToLeader, gapsToAhead,
  currentLeader, miniSeqTimes, lastStableGaps, lastStableGapsAhead,
  positionsByLap, lastRecordedLap, rows, frozenOrder, viewportChanged,
  timeOffsetSeconds>>

vars == <<progVars, counted, countedBefore, sfSinceFinish, nOffered, pipeline>>

\* The program state as one record, so that the steps of a frame compose.
State == [
  raceTime |-> raceTime, isPlaying |-> isPlaying,
  playbackSpeed |-> playbackSpeed, lastBoardAbsSec |-> lastBoardAbsSec,
  prevScreenPos |-> prevScreenPos,
  lapCounts |-> lapCounts, lastCrossSec |-> lastCrossSec,
  miniCounts |-> miniCounts, lastMiniCrossSec |-> lastMiniCrossSec,
  lastMiniCrossSecByGate |-> lastMiniCrossSecByGate,
  pitOverlayActive |-> pitOverlayActive,
  lastPitEntryCrossSec |-> lastPitEntryCrossSec,
  dnfOverlayActive |-> dnfOverlayActive,
  frozenDrivers |-> frozenDrivers, freezePos |-> freezePos,
  freezePending |-> freezePending,
  raceFinishTriggered |-> raceFinishTriggered,
  finishLeaderDn |-> finishLeaderDn, awaitingFlag |-> awaitingFlag,
  revealedDrivers |-> revealedDrivers,
  baselineMiniAtGreen |-> baselineMiniAtGreen,
  baselinedAtGreen |-> baselinedAtGreen,
  gapsToLeader |-> gapsToLeader, gapsToAhead |-> gapsToAhead,
  currentLeader |-> currentLeader,
  miniSeqTimes |-> miniSeqTimes, lastStableGaps |-> lastStableGaps,
  lastStableGapsAhead |-> lastStableGapsAhead,
  positionsByLap |-> positionsByLap, lastRecordedLap |-> lastRecordedLap,
  rows |-> rows, frozenOrder |-> frozenOrder,
  viewportChanged |-> viewportChanged,
  timeOffsetSeconds |-> timeOffsetSeconds,
  counted |-> counted, countedBefore |-> countedBefore,
  sfSinceFinish |-> sfSinceFinish, nOffered |-> nOffered,
  pipeline |-> pipeline]

\* ------------------------------------------------------------ pure helpers
numericLap(c, pitStart) ==
  IF pitStart THEN (IF c = 0 THEN 1 ELSE c + 1) ELSE (IF c = 0 THEN 1 ELSE c)

lapNumOf(s, dn) == numericLap(s.lapCounts[dn], dn \in PIT_START_DRIVERS)

\* The loop of lapHeaderNumeric over the keys of lapCounts, from key i on,
\* with mx the maximum so far.
RECURSIVE LapHeaderFrom(_, _, _)
LapHeaderFrom(s, i, mx) ==
  IF i > Len(lapCountsKeys) THEN mx
  ELSE LapHeaderFrom(s, i + 1, Max(mx, lapNumOf(s, lapCountsKeys[i])))

\* The lap number of the header: the maximum numeric lap over all drivers.
lapHeaderNumeric(s) == LapHeaderFrom(s, 1, 1)

\* rawMini and timeSince of a candidate / leaderboard row.
rawMiniOf(s, dn) ==
  LET base == IF s.baselinedAtGreen THEN s.baselineMiniAtGreen[dn] ELSE 0
  IN Max(0, s.miniCounts[dn] - base)

timeSinceOf(s, dn) ==
  LET last == s.lastMiniCrossSec[dn]
  IN IF last # NegInf THEN s.lastBoardAbsSec - last ELSE NegHuge

\* The comparator of both sorts: a negative result, a sorts before b.
SortsBefore(s, a, b) ==
  IF rawMiniOf(s, b) # rawMiniOf(s, a)
    THEN rawMiniOf(s, b) - rawMiniOf(s, a) < 0
    ELSE timeSinceOf(s, b) - timeSinceOf(s, a) < 0

RECURSIVE InsertStable(_, _, _)
InsertStable(s, x, sorted) ==
  IF sorted = <<>> THEN <<x>>
  ELSE IF SortsBefore(s, x, Head(sorted)) THEN <<x>> \o sorted
  ELSE <<Head(sorted)>> \o InsertStable(s, x, Tail(sorted))

\* Array.prototype.sort with that comparator (stable).
RECURSIVE SortStable(_, _)
SortStable(s, seq) ==
  IF seq = <<>> THEN <<>>
  ELSE InsertStable(s, seq[Len(seq)], SortStable(s, SubSeq(seq, 1, Len(seq) - 1)))

\* Variant: no reveal filter.
RevealedOfAll(s, keys) == keys

RevealedOf(s, keys) == SelectSeq(keys, LAMBDA dn : dn \in s.revealedDrivers)

Null == 0                                        \* null / undefined

\* History: the stages of the latest frame, in the order they ran.
Log(s, stage) == [s EXCEPT !.pipeline = Append(@, stage)]

\* ------------------------------------------------------------- gap engine
\* Variant: the fallback is always Unavailable.
StableAlwaysNA(fb) == GapNA

\* (!fb || fb.type==='leader') ? {type:'na'} : fb
StableOrNA(fb) ==
  IF fb = GapNone \/ fb.type = "leader" THEN GapNA ELSE fb

\* Variant: the difference is not clamped at zero.
GapAgainstUnclamped(s, dn, refSeq, cache) ==
  LET seq == s.miniSeqTimes[dn]
  IN IF Len(seq) = 0 THEN StableOrNA(cache[dn])
     ELSE LET idx == Len(seq)
              tD == seq[idx]
          IN IF Len(refSeq) >= idx
               THEN GapTime(tD - refSeq[idx])
               ELSE StableOrNA(cache[dn])

\* Variant: the comparison is against the latest timestamp of refSeq.
GapAgainstLatest(s, dn, refSeq, cache) ==
  LET seq == s.miniSeqTimes[dn]
  IN IF Len(seq) = 0 THEN StableOrNA(cache[dn])
     ELSE LET idx == Len(seq)
              tD == seq[idx]
          IN IF Len(refSeq) >= idx
               THEN GapTime(Max(0, tD - refSeq[Len(refSeq)]))
               ELSE StableOrNA(cache[dn])

\* Gap of dn against the sequence refSeq at dn's latest ordinal index, with
\* the last stable value as the fallback.
GapAgainst(s, dn, refSeq, cache) ==
  LET seq == s.miniSeqTimes[dn]
  IN IF Len(seq) = 0 THEN StableOrNA(cache[dn])
     ELSE LET idx == Len(seq)
              tD == seq[idx]
          IN IF Len(refSeq) >= idx
               THEN GapTime(Max(0, tD - refSeq[idx]))
               ELSE StableOrNA(cache[dn])

\* What the stability caches keep of a committed value.
StableLeaderOf(g) == IF g.type = "leader" THEN GapTime(0) ELSE g
StableAheadOf(g) == IF g.type = "leader" THEN GapNA ELSE g

PosIn(seq, dn) == CHOOSE i \in 1..Len(seq) : seq[i] = dn
InSeq(seq, dn) == \E i \in 1..Len(seq) : seq[i] = dn

\* Variant: every driver level on progress with the first is tagged.
IsLeaderInTie(s, order, dn) == rawMiniOf(s, dn) = rawMiniOf(s, order[1])

\* dn === currentLeader
IsLeaderIn(s, order, dn) == dn = order[1]

\* Variant: the caches are refreshed from the maps being replaced.
CommitGapsFromOld(s, newLeader, newAhead) ==
  [s EXCEPT
    !.gapsToLeader = newLeader,
    !.gapsToAhead = newAhead,
    !.lastStableGaps = [dn \in Drivers |->
       IF s.gapsToLeader[dn] = GapNone THEN s.lastStableGaps[dn]
       ELSE StableLeaderOf(s.gapsToLeader[dn])],
    !.lastStableGapsAhead = [dn \in Drivers |->
       IF s.gapsToAhead[dn] = GapNone THEN s.lastStableGapsAhead[dn]
       ELSE StableAheadOf(s.gapsToAhead[dn])]]

\* "Commit and refresh stability caches": the maps are replaced and the
\* caches take the normalized new values of the ranked drivers.
CommitGaps(s, newLeader, newAhead) ==
  [s EXCEPT
    !.gapsToLeader = newLeader,
    !.gapsToAhead = newAhead,
    !.lastStableGaps = [dn \in Drivers |->
       IF newLeader[dn] = GapNone THEN s.lastStableGaps[dn]
       ELSE StableLeaderOf(newLeader[dn])],
    !.lastStableGapsAhead = [dn \in Drivers |->
       IF newAhead[dn] = GapNone THEN s.lastStableGapsAhead[dn]
       ELSE StableAheadOf(newAhead[dn])]]

recomputeGapsSFandMinisectors(s0) ==
  LET s == Log(s0, "gap")
      cand == RevealedOf(s, lapCountsKeys)
  IN IF cand = <<>>
     THEN [s EXCEPT
            !.gapsToLeader = [dn \in Drivers |-> StableOrNA(s.lastStableGaps[dn])],
            !.gapsToAhead = [dn \in Drivers |-> StableOrNA(s.lastStableGapsAhead[dn])],
            !.currentLeader = Null]
     ELSE
       LET order == SortStable(s, cand)
           leader == order[1]
           leaderSeq == s.miniSeqTimes[leader]
           newLeader == [dn \in Drivers |->
             IF ~InSeq(order, dn) THEN GapNone
             ELSE IF IsLeaderIn(s, order, dn) THEN GapLeader
             ELSE GapAgainst(s, dn, leaderSeq, s.lastStableGaps)]
           newAhead == [dn \in Drivers |->
             IF ~InSeq(order, dn) THEN GapNone
             ELSE IF PosIn(order, dn) = 1 THEN GapLeader
             ELSE GapAgainst(s, dn, s.miniSeqTimes[order[PosIn(order, dn) - 1]],
                             s.lastStableGapsAhead)]
       IN CommitGaps([s EXCEPT !.currentLeader = leader], newLeader, newAhead)

\* --------------------------------------------------------------- a frame
carAbsSecOf(s) == (carStartSec + s.raceTime) + s.timeOffsetSeconds
boardAbsSecOf(s) == boardStartSec + s.raceTime

\* The gates of the replay, as keys of the crossing history.
MiniGate(gi) == [kind |-> "mini", gi |-> gi]
SFGate == [kind |-> "sf", gi |-> 0]
PitGate == [kind |-> "pit", gi |-> 0]
AllGates == {MiniGate(gi) : gi \in Gates} \cup {SFGate, PitGate}

\* History: the crossing of gate by n in this frame passed the debounce.
Count(s, n, gate) == [s EXCEPT !.counted = @ \cup {[dn |-> n, gate |-> gate]}]

\* Advance the clock while playing; derive the board clock.
ClockStep(s) ==
  LET t == IF s.isPlaying THEN s.raceTime + dt * s.playbackSpeed ELSE s.raceTime
  IN [s EXCEPT !.raceTime = t, !.lastBoardAbsSec = boardStartSec + t]

DnfActivation(s) ==
  [s EXCEPT !.dnfOverlayActive = [dn \in Drivers |->
     IF dn \in DOMAIN dnfTimesAbsSec /\ boardAbsSecOf(s) >= dnfTimesAbsSec[dn]
       THEN TRUE ELSE s.dnfOverlayActive[dn]]]

\* Variant: the baseline leaves the gap maps as they are.
BaselineAtGreenNoRecompute(s) ==
  IF boardAbsSecOf(s) >= RACE_START_ABS_SEC /\ ~s.baselinedAtGreen
  THEN [s EXCEPT
         !.baselineMiniAtGreen = s.miniCounts,
         !.lastMiniCrossSecByGate = [dn \in Drivers |-> [gi \in Gates |-> NegInf]],
         !.miniSeqTimes = [dn \in Drivers |-> <<>>],
         !.lastStableGaps = [dn \in Drivers |-> GapNA],
         !.lastStableGapsAhead = [dn \in Drivers |-> GapNA],
         !.pitOverlayActive = [dn \in Drivers |-> FALSE],
         !.lastPitEntryCrossSec = [dn \in Drivers |-> NegInf],
         !.baselinedAtGreen = TRUE]
  ELSE s

\* Variant: the minisector counters are reset with the other accumulators.
BaselineAtGreenResetCounts(s) ==
  IF boardAbsSecOf(s) >= RACE_START_ABS_SEC /\ ~s.baselinedAtGreen
  THEN recomputeGapsSFandMinisectors(
         [s EXCEPT
           !.baselineMiniAtGreen = [dn \in Drivers |-> 0],
           !.miniCounts = [dn \in Drivers |-> 0],
           !.lastMiniCrossSecByGate = [dn \in Drivers |-> [gi \in Gates |-> NegInf]],
           !.miniSeqTimes = [dn \in Drivers |-> <<>>],
           !.lastStableGaps = [dn \in Drivers |-> GapNA],
           !.lastStableGapsAhead = [dn \in Drivers |-> GapNA],
           !.pitOverlayActive = [dn \in Drivers |-> FALSE],
           !.lastPitEntryCrossSec = [dn \in Drivers |-> NegInf],
           !.baselinedAtGreen = TRUE])
  ELSE s

\* Baseline at green: capture the counts, reset the accumulators, recompute.
BaselineAtGreen(s) ==
  IF boardAbsSecOf(s) >= RACE_START_ABS_SEC /\ ~s.baselinedAtGreen
  THEN recomputeGapsSFandMinisectors(
         [s EXCEPT
           !.baselineMiniAtGreen = s.miniCounts,
           !.lastMiniCrossSecByGate = [dn \in Drivers |-> [gi \in Gates |-> NegInf]],
           !.miniSeqTimes = [dn \in Drivers |-> <<>>],
           !.lastStableGaps = [dn \in Drivers |-> GapNA],
           !.lastStableGapsAhead = [dn \in Drivers |-> GapNA],
           !.pitOverlayActive = [dn \in Drivers |-> FALSE],
           !.lastPitEntryCrossSec = [dn \in Drivers |-> NegInf],
           !.baselinedAtGreen = TRUE])
  ELSE s

\* Variant: a frozen driver's pit-entry crossing is taken like any other.
PitDetectionFrozenToo(s, n, inp) ==
  IF inp.pit
     /\ (carAbsSecOf(s) - s.lastPitEntryCrossSec[n]) >= MIN_CROSSING_INTERVAL_SEC
  THEN Count([s EXCEPT !.pitOverlayActive[n] = TRUE,
                       !.lastPitEntryCrossSec[n] = carAbsSecOf(s)], n, PitGate)
  ELSE s

\* Pit-entry crossing of driver n (the segment crosses the gate: inp.pit).
PitDetection(s, n, inp) ==
  IF n \notin s.frozenDrivers /\ inp.pit
     /\ (carAbsSecOf(s) - s.lastPitEntryCrossSec[n]) >= MIN_CROSSING_INTERVAL_SEC
  THEN Count([s EXCEPT !.pitOverlayActive[n] = TRUE,
                       !.lastPitEntryCrossSec[n] = carAbsSecOf(s)], n, PitGate)
  ELSE s

\* Variant: a minisector crossing leaves the pit overlay as it is.
MiniCrossingKeepsPit(s, n, gi, afterGreen) ==
  LET s1 == [s EXCEPT !.miniCounts[n] = @ + 1,
                      !.lastMiniCrossSec[n] = carAbsSecOf(s),
                      !.revealedDrivers = @ \cup {n}]
      s2 == IF afterGreen
              THEN recomputeGapsSFandMinisectors(
                     [s1 EXCEPT !.miniSeqTimes[n] = Append(@, carAbsSecOf(s))])
              ELSE s1
  IN Count([s2 EXCEPT !.lastMiniCrossSecByGate[n][gi] = carAbsSecOf(s)],
           n, MiniGate(gi))

\* One accepted (debounced) minisector crossing of gate gi by n.
MiniCrossing(s, n, gi, afterGreen) ==
  LET s1 == [s EXCEPT !.miniCounts[n] = @ + 1,
                      !.lastMiniCrossSec[n] = carAbsSecOf(s),
                      !.revealedDrivers = @ \cup {n},
                      !.pitOverlayActive[n] = FALSE]
      s2 == IF afterGreen
              THEN recomputeGapsSFandMinisectors(
                     [s1 EXCEPT !.miniSeqTimes[n] = Append(@, carAbsSecOf(s))])
              ELSE s1
  IN Count([s2 EXCEPT !.lastMiniCrossSecByGate[n][gi] = carAbsSecOf(s)],
           n, MiniGate(gi))

\* The loop over the minisector gates, from gate gi on.
RECURSIVE MiniDetection(_, _, _, _, _)
MiniDetection(s, n, inp, gi, afterGreen) ==
  IF gi >= K_MS THEN s
  ELSE LET hit == gi \in inp.minis
                  /\ (carAbsSecOf(s) - s.lastMiniCrossSecByGate[n][gi])
                       >= MIN_CROSSING_INTERVAL_SEC
           s1 == IF hit THEN MiniCrossing(s, n, gi, afterGreen) ELSE s
       IN MiniDetection(s1, n, inp, gi + 1, afterGreen)

\* Variant: the finish trigger marks the other drivers to freeze at once.
FinishLogicInstant(s0, n) ==
  LET s == Log(s0, "freeze")
      lapNum == lapNumOf(s, n)
      s1 == IF s.raceFinishTriggered /\ s.awaitingFlag[n] /\ n \notin s.frozenDrivers
              THEN [s EXCEPT !.freezePending = @ \cup {n}, !.awaitingFlag[n] = FALSE]
              ELSE s
      s2 == IF lapNum >= FINAL_LAP /\ n \notin s1.frozenDrivers
              THEN [s1 EXCEPT !.freezePending = @ \cup {n}]
              ELSE s1
  IN IF ~s2.raceFinishTriggered /\ lapNum >= FINAL_LAP
     THEN [s2 EXCEPT
            !.raceFinishTriggered = TRUE,
            !.finishLeaderDn = n,
            !.freezePending = @ \cup (Drivers \ s2.frozenDrivers)]
     ELSE s2

\* Variant: every crossing at or beyond FINAL_LAP triggers the finish again.
FinishLogicRetrigger(s0, n) ==
  LET s == Log(s0, "freeze")
      lapNum == lapNumOf(s, n)
      s1 == IF s.raceFinishTriggered /\ s.awaitingFlag[n] /\ n \notin s.frozenDrivers
              THEN [s EXCEPT !.freezePending = @ \cup {n}, !.awaitingFlag[n] = FALSE]
              ELSE s
      s2 == IF lapNum >= FINAL_LAP /\ n \notin s1.frozenDrivers
              THEN [s1 EXCEPT !.freezePending = @ \cup {n}]
              ELSE s1
  IN IF lapNum >= FINAL_LAP
     THEN [s2 EXCEPT
            !.raceFinishTriggered = TRUE,
            !.finishLeaderDn = n,
            !.awaitingFlag = [k2 \in Drivers |->
               IF k2 # n /\ k2 \notin s2.frozenDrivers THEN TRUE
               ELSE s2.awaitingFlag[k2]]]
     ELSE s2

\* Variant: the crossing of a flagged driver clears the flag but marks no freeze.
FinishLogicFlagOnly(s0, n) ==
  LET s == Log(s0, "freeze")
      lapNum == lapNumOf(s, n)
      s1 == IF s.raceFinishTriggered /\ s.awaitingFlag[n] /\ n \notin s.frozenDrivers
              THEN [s EXCEPT !.awaitingFlag[n] = FALSE]
              ELSE s
      s2 == IF lapNum >= FINAL_LAP /\ n \notin s1.frozenDrivers
              THEN [s1 EXCEPT !.freezePending = @ \cup {n}]
              ELSE s1
  IN IF ~s2.raceFinishTriggered /\ lapNum >= FINAL_LAP
     THEN [s2 EXCEPT
            !.raceFinishTriggered = TRUE,
            !.finishLeaderDn = n,
            !.awaitingFlag = [k2 \in Drivers |->
               IF k2 # n /\ k2 \notin s2.frozenDrivers THEN TRUE
               ELSE s2.awaitingFlag[k2]]]
     ELSE s2

\* Finish logic of a counted start/finish crossing (lapCounts already bumped).
FinishLogic(s0, n) ==
  LET s == Log(s0, "freeze")
      lapNum == lapNumOf(s, n)
      s1 == IF s.raceFinishTriggered /\ s.awaitingFlag[n] /\ n \notin s.frozenDrivers
              THEN [s EXCEPT !.freezePending = @ \cup {n}, !.awaitingFlag[n] = FALSE]
              ELSE s
      s2 == IF lapNum >= FINAL_LAP /\ n \notin s1.frozenDrivers
              THEN [s1 EXCEPT !.freezePending = @ \cup {n}]
              ELSE s1
  IN IF ~s2.raceFinishTriggered /\ lapNum >= FINAL_LAP
     THEN [s2 EXCEPT
            !.raceFinishTriggered = TRUE,
            !.finishLeaderDn = n,
            !.awaitingFlag = [k2 \in Drivers |->
               IF k2 # n /\ k2 \notin s2.frozenDrivers THEN TRUE
               ELSE s2.awaitingFlag[k2]]]
     ELSE s2

SFDetection(s, n, inp, afterGreen) ==
  IF afterGreen /\ inp.sf
     /\ (carAbsSecOf(s) - s.lastCrossSec[n]) >= MIN_CROSSING_INTERVAL_SEC
  THEN LET s1 == [s EXCEPT !.lapCounts[n] = @ + 1,
                           !.lastCrossSec[n] = carAbsSecOf(s),
                           !.sfSinceFinish = IF s.raceFinishTriggered
                                               THEN @ \cup {n} ELSE @]
       IN Count(FinishLogic(s1, n), n, SFGate)
  ELSE s

\* The body of DRIVER_NUMS.forEach for driver n.
ProcessDriver(s, n, inp, afterGreen) ==
  IF n \in NoSampleDrivers THEN s
  ELSE LET allowDetection ==
             (carAbsSecOf(s) - carStartSec) >= LAP_COUNT_START_DELAY_SEC
           s1 == IF allowDetection /\ s.prevScreenPos[n] /\ s.playbackSpeed > 0
                   THEN SFDetection(
                          MiniDetection(PitDetection(s, n, inp), n, inp, 0, afterGreen),
                          n, inp, afterGreen)
                   ELSE s
       IN [s1 EXCEPT !.prevScreenPos[n] = TRUE]

\* The forEach over the drivers in the order of the array order, from i on.
RECURSIVE ProcessDriversIn(_, _, _, _, _)
ProcessDriversIn(s, order, i, inputs, afterGreen) ==
  IF i > Len(order) THEN Log(s, "detected")
  ELSE ProcessDriversIn(ProcessDriver(s, order[i], inputs[order[i]], afterGreen),
                        order, i + 1, inputs, afterGreen)

\* DRIVER_NUMS.forEach
ProcessDrivers(s, i, inputs, afterGreen) ==
  ProcessDriversIn(s, DRIVER_NUMS, i, inputs, afterGreen)

\* ------------------------------------------------------------ leaderboard
\* "Freeze commits", first loop: the rows that are marked to freeze.
FreezeMarks(s, rws) ==
  {dn \in Drivers : InSeq(rws, dn) /\
     \/ (lapNumOf(s, dn) >= FINAL_LAP /\ dn \notin s.frozenDrivers)
     \/ (dn = 4 /\ s.dnfOverlayActive[4] /\ PosIn(rws, dn) = DNF_LAST_POSITION
         /\ 4 \notin s.frozenDrivers)}

\* Variant: the commit is repeated for a driver that is already frozen.
CommitFreezeAgain(s, rws, dn) ==
  [s EXCEPT !.frozenDrivers = @ \cup {dn},
            !.frozenOrder = IF dn \in s.frozenDrivers THEN @ ELSE Append(@, dn),
            !.freezePos[dn] = IF InSeq(rws, dn) THEN PosIn(rws, dn) ELSE @,
            !.pitOverlayActive[dn] = FALSE]

\* One commit of the second loop, for a driver with freezePending set.
CommitFreeze(s, rws, dn) ==
  IF dn \notin s.frozenDrivers
  THEN [s EXCEPT !.frozenDrivers = @ \cup {dn},
                 !.frozenOrder = Append(@, dn),
                 !.freezePos[dn] = IF InSeq(rws, dn) THEN PosIn(rws, dn) ELSE @,
                 !.pitOverlayActive[dn] = FALSE]
  ELSE s

RECURSIVE CommitFreezes(_, _, _)
CommitFreezes(s, rws, i) ==
  IF i > Len(lapCountsKeys) THEN s
  ELSE LET dn == lapCountsKeys[i]
       IN CommitFreezes(IF dn \in s.freezePending THEN CommitFreeze(s, rws, dn) ELSE s,
                        rws, i + 1)

\* Snapshot of the order once per leader lap (for the chart).
SnapshotPositions(s, rws) ==
  LET leaderLap == lapNumOf(s, rws[1])
  IN IF s.baselinedAtGreen /\ leaderLap > 0 /\ leaderLap # s.lastRecordedLap
     THEN [s EXCEPT !.positionsByLap[leaderLap] = rws,
                    !.lastRecordedLap = leaderLap]
     ELSE s

\* constrain(v, lo, hi) of p5.
constrain(v, lo, hi) == IF v < lo THEN lo ELSE IF v > hi THEN hi ELSE v

\* while(idx<total && finalRows[idx]!==null) idx++  (slots counted from 1)
RECURSIVE FirstFreeUp(_, _)
FirstFreeUp(fr, idx) ==
  IF idx <= Len(fr) /\ fr[idx] # Null THEN FirstFreeUp(fr, idx + 1) ELSE idx

\* while(idx>=0 && finalRows[idx]!==null) idx--
RECURSIVE FirstFreeDown(_, _)
FirstFreeDown(fr, idx) ==
  IF idx >= 1 /\ fr[idx] # Null THEN FirstFreeDown(fr, idx - 1) ELSE idx

\* Variant: a frozen row takes its frozen slot without looking for a free one.
PinFrozenNoSearch(s, rws, fr, dn) ==
  IF ~InSeq(rws, dn) THEN fr
  ELSE LET total == Len(rws)
           pos == constrain(IF s.freezePos[dn] # Null THEN s.freezePos[dn]
                            ELSE PosIn(rws, dn), 1, total)
       IN [fr EXCEPT ![pos] = dn]

\* A frozen row is injected into its frozen slot, or the nearest free one.
PinFrozen(s, rws, fr, dn) ==
  IF ~InSeq(rws, dn) THEN fr
  ELSE LET total == Len(rws)
           pos == constrain(IF s.freezePos[dn] # Null THEN s.freezePos[dn]
                            ELSE PosIn(rws, dn), 1, total)
           up == FirstFreeUp(fr, pos)
           idx == IF up > total THEN FirstFreeDown(fr, pos - 1) ELSE up
       IN IF idx >= 1 /\ idx <= total THEN [fr EXCEPT ![idx] = dn] ELSE fr

\* Array.from(frozenDrivers).forEach, in insertion order.
RECURSIVE PinAll(_, _, _, _)
PinAll(s, rws, fr, i) ==
  IF i > Len(s.frozenOrder) THEN fr
  ELSE PinAll(s, rws, PinFrozen(s, rws, fr, s.frozenOrder[i]), i + 1)

\* The remaining holes take the active rows in their current order.
RECURSIVE FillHoles(_, _, _)
FillHoles(fr, active, i) ==
  IF i > Len(fr) THEN fr
  ELSE IF fr[i] # Null THEN FillHoles(fr, active, i + 1)
  ELSE IF active = <<>> THEN FillHoles(fr, active, i + 1)
  ELSE FillHoles([fr EXCEPT ![i] = Head(active)], Tail(active), i + 1)

\* The visible order of the board: frozen rows pinned, active rows between.
finalRowsOf(s, rws) ==
  LET active == SelectSeq(rws, LAMBDA dn : dn \notin s.frozenDrivers)
  IN FillHoles(PinAll(s, rws, [i \in 1..Len(rws) |-> Null], 1), active, 1)

drawLeaderboard(s) ==
  LET rws == SortStable(s, RevealedOf(s, driverInfoRows))
  IN IF rws = <<>> THEN [s EXCEPT !.rows = rws]
     ELSE LET s1 == [Log(Log(s, "rank"), "freeze") EXCEPT
                       !.rows = rws,
                       !.freezePending = @ \cup FreezeMarks(s, rws)]
          IN SnapshotPositions(CommitFreezes(s1, rws, 1), rws)

\* Number of gate crossings a frame presents.
RECURSIVE OfferedFrom(_, _)
OfferedFrom(inp, i) ==
  IF i > Len(DRIVER_NUMS) THEN 0
  ELSE LET c == inp[DRIVER_NUMS[i]]
       IN Cardinality(c.minis) + (IF c.sf THEN 1 ELSE 0) + (IF c.pit THEN 1 ELSE 0)
          + OfferedFrom(inp, i + 1)
Offered(inp) == OfferedFrom(inp, 1)

\* One frame: clock, DNF activation, baseline, detection for every driver in
\* the order of the array order, leaderboard.
drawIn(s, inputs, order) ==
  LET s0 == [s EXCEPT
               !.countedBefore = [dn \in Drivers |-> [g \in AllGates |->
                  IF [dn |-> dn, gate |-> g] \in s.counted
                    THEN carAbsSecOf(s) ELSE s.countedBefore[dn][g]]],
               !.counted = {},
               !.nOffered = @ + Offered(inputs),
               !.pipeline = <<>>]
      s1 == BaselineAtGreen(DnfActivation(ClockStep(s0)))
      afterGreen == carAbsSecOf(s1) >= RACE_START_ABS_SEC
      s2 == ProcessDriversIn(s1, order, 1, inputs, afterGreen)
  IN drawLeaderboard([s2 EXCEPT !.viewportChanged = FALSE])

\* The frame of the program: the drivers are taken in DRIVER_NUMS order.
draw(s, inputs) == drawIn(s, inputs, DRIVER_NUMS)

\* ------------------------------------------------------------ frame inputs
CrossInputs == [minis : SUBSET Gates, sf : BOOLEAN, pit : BOOLEAN]
NoCrossing == [minis |-> {}, sf |-> FALSE, pit |-> FALSE]

\* The geometrically valid crossings a frame can present.  A car's position
\* is a function of carAbsSec and of the world-to-screen transform, so while
\* paused the segment prev -> current has length zero and crosses nothing,
\* unless the transform changed since prevScreenPos was recorded; a car
\* without samples is skipped.
FrameInputs ==
  LET left == MaxEvents - nOffered
      size(c) == Cardinality(c.minis) + (IF c.sf THEN 1 ELSE 0) + (IF c.pit THEN 1 ELSE 0)
      within == {c \in CrossInputs : size(c) <= left}
      moving == IF isPlaying \/ viewportChanged THEN Drivers \ NoSampleDrivers ELSE {}
  IN {inp \in {[dn \in Drivers |-> IF dn \in moving THEN f[dn] ELSE NoCrossing] :
                 f \in [moving -> within]} :
        Offered(inp) <= left}

Install(s) ==
  /\ raceTime' = s.raceTime
  /\ isPlaying' = s.isPlaying
  /\ playbackSpeed' = s.playbackSpeed
  /\ lastBoardAbsSec' = s.lastBoardAbsSec
  /\ prevScreenPos' = s.prevScreenPos
  /\ lapCounts' = s.lapCounts
  /\ lastCrossSec' = s.lastCrossSec
  /\ miniCounts' = s.miniCounts
  /\ lastMiniCrossSec' = s.lastMiniCrossSec
  /\ lastMiniCrossSecByGate' = s.lastMiniCrossSecByGate
  /\ pitOverlayActive' = s.pitOverlayActive
  /\ lastPitEntryCrossSec' = s.lastPitEntryCrossSec
  /\ dnfOverlayActive' = s.dnfOverlayActive
  /\ frozenDrivers' = s.frozenDrivers
  /\ freezePos' = s.freezePos
  /\ freezePending' = s.freezePending
  /\ raceFinishTriggered' = s.raceFinishTriggered
  /\ finishLeaderDn' = s.finishLeaderDn
  /\ awaitingFlag' = s.awaitingFlag
  /\ revealedDrivers' = s.revealedDrivers
  /\ baselineMiniAtGreen' = s.baselineMiniAtGreen
  /\ baselinedAtGreen' = s.baselinedAtGreen
  /\ gapsToLeader' = s.gapsToLeader
  /\ gapsToAhead' = s.gapsToAhead
  /\ currentLeader' = s.currentLeader
  /\ miniSeqTimes' = s.miniSeqTimes
  /\ lastStableGaps' = s.lastStableGaps
  /\ lastStableGapsAhead' = s.lastStableGapsAhead
  /\ positionsByLap' = s.positionsByLap
  /\ lastRecordedLap' = s.lastRecordedLap
  /\ rows' = s.rows
  /\ frozenOrder' = s.frozenOrder
  /\ viewportChanged' = s.viewportChanged
  /\ timeOffsetSeconds' = s.timeOffsetSeconds
  /\ counted' = s.counted
  /\ countedBefore' = s.countedBefore
  /\ sfSinceFinish' = s.sfSinceFinish
  /\ nOffered' = s.nOffered
  /\ pipeline' = s.pipeline

\* ---------------------------------------------------------------- actions
\* The variables hold the values of the record s.
Is(s) ==
  /\ raceTime = s.raceTime
  /\ isPlaying = s.isPlaying
  /\ playbackSpeed = s.playbackSpeed
  /\ lastBoardAbsSec = s.lastBoardAbsSec
  /\ prevScreenPos = s.prevScreenPos
  /\ lapCounts = s.lapCounts
  /\ lastCrossSec = s.lastCrossSec
  /\ miniCounts = s.miniCounts
  /\ lastMiniCrossSec = s.lastMiniCrossSec
  /\ lastMiniCrossSecByGate = s.lastMiniCrossSecByGate
  /\ pitOverlayActive = s.pitOverlayActive
  /\ lastPitEntryCrossSec = s.lastPitEntryCrossSec
  /\ dnfOverlayActive = s.dnfOverlayActive
  /\ frozenDrivers = s.frozenDrivers
  /\ freezePos = s.freezePos
  /\ freezePending = s.freezePending
  /\ raceFinishTriggered = s.raceFinishTriggered
  /\ finishLeaderDn = s.finishLeaderDn
  /\ awaitingFlag = s.awaitingFlag
  /\ revealedDrivers = s.revealedDrivers
  /\ baselineMiniAtGreen = s.baselineMiniAtGreen
  /\ baselinedAtGreen = s.baselinedAtGreen
  /\ gapsToLeader = s.gapsToLeader
  /\ gapsToAhead = s.gapsToAhead
  /\ currentLeader = s.currentLeader
  /\ miniSeqTimes = s.miniSeqTimes
  /\ lastStableGaps = s.lastStableGaps
  /\ lastStableGapsAhead = s.lastStableGapsAhead
  /\ positionsByLap = s.positionsByLap
  /\ lastRecordedLap = s.lastRecordedLap
  /\ rows = s.rows
  /\ frozenOrder = s.frozenOrder
  /\ viewportChanged = s.viewportChanged
  /\ timeOffsetSeconds = s.timeOffsetSeconds
  /\ counted = s.counted
  /\ countedBefore = s.countedBefore
  /\ sfSinceFinish = s.sfSinceFinish
  /\ nOffered = s.nOffered
  /\ pipeline = s.pipeline

\* The state after construction (resetRaceState and the globals' initial
\* values); any speed preset can be chosen before the first frame.
Constructed == [
  raceTime |-> 0,
  isPlaying |-> TRUE,
  playbackSpeed |-> 2,
  lastBoardAbsSec |-> 0,
  prevScreenPos |-> [dn \in Drivers |-> FALSE],
  lapCounts |-> [dn \in Drivers |-> 0],
  lastCrossSec |-> [dn \in Drivers |-> NegInf],
  miniCounts |-> [dn \in Drivers |-> 0],
  lastMiniCrossSec |-> [dn \in Drivers |-> NegInf],
  lastMiniCrossSecByGate |-> [dn \in Drivers |-> [gi \in Gates |-> NegInf]],
  pitOverlayActive |-> [dn \in Drivers |-> FALSE],
  lastPitEntryCrossSec |-> [dn \in Drivers |-> NegInf],
  dnfOverlayActive |-> [dn \in Drivers |-> FALSE],
  frozenDrivers |-> {},
  freezePos |-> [dn \in Drivers |-> Null],
  freezePending |-> {},
  raceFinishTriggered |-> FALSE,
  finishLeaderDn |-> Null,
  awaitingFlag |-> [dn \in Drivers |-> FALSE],
  revealedDrivers |-> {},
  baselineMiniAtGreen |-> [dn \in Drivers |-> 0],
  baselinedAtGreen |-> FALSE,
  gapsToLeader |-> [dn \in Drivers |-> GapNone],
  gapsToAhead |-> [dn \in Drivers |-> GapNone],
  currentLeader |-> Null,
  miniSeqTimes |-> [dn \in Drivers |-> <<>>],
  lastStableGaps |-> [dn \in Drivers |-> GapNA],
  lastStableGapsAhead |-> [dn \in Drivers |-> GapNA],
  positionsByLap |-> [lap \in 1..(MaxEvents + 1) |-> <<>>],
  lastRecordedLap |-> 0,
  rows |-> <<>>,
  frozenOrder |-> <<>>,
  viewportChanged |-> FALSE,
  timeOffsetSeconds |-> TIME_OFFSET_SECONDS,
  counted |-> {},
  countedBefore |-> [dn \in Drivers |-> [g \in AllGates |-> NegInf]],
  sfSinceFinish |-> {},
  nOffered |-> 0,
  pipeline |-> <<>>]

Init == Is(Constructed)

\* A frame of the p5 draw loop.
Draw ==
  /\ isPlaying => raceTime + dt * playbackSpeed <= MaxTime
  /\ \E inputs \in FrameInputs : Install(draw(State, inputs))

\* keyPressed: space toggles playback.
KeyPressedSpace ==
  /\ isPlaying' = ~isPlaying
  /\ UNCHANGED <<raceTime, playbackSpeed, lastBoardAbsSec,
       prevScreenPos, lapCounts, lastCrossSec, miniCounts, lastMiniCrossSec,
       lastMiniCrossSecByGate, pitOverlayActive, lastPitEntryCrossSec,
       dnfOverlayActive, frozenDrivers, freezePos, freezePending,
       raceFinishTriggered, finishLeaderDn, awaitingFlag, revealedDrivers,
       baselineMiniAtGreen, baselinedAtGreen, gapsToLeader, gapsToAhead,
       currentLeader, miniSeqTimes, lastStableGaps, lastStableGapsAhead,
       positionsByLap, lastRecordedLap, rows, frozenOrder, viewportChanged,
       timeOffsetSeconds,
       counted, countedBefore, sfSinceFinish, nOffered, pipeline>>

\* mousePressed on a speed button.
MousePressedSpeed ==
  /\ \E v \in SPEED_PRESETS : playbackSpeed' = v
  /\ UNCHANGED <<raceTime, isPlaying, lastBoardAbsSec,
       prevScreenPos, lapCounts, lastCrossSec, miniCounts, lastMiniCrossSec,
       lastMiniCrossSecByGate, pitOverlayActive, lastPitEntryCrossSec,
       dnfOverlayActive, frozenDrivers, freezePos, freezePending,
       raceFinishTriggered, finishLeaderDn, awaitingFlag, revealedDrivers,
       baselineMiniAtGreen, baselinedAtGreen, gapsToLeader, gapsToAhead,
       currentLeader, miniSeqTimes, lastStableGaps, lastStableGapsAhead,
       positionsByLap, lastRecordedLap, rows, frozenOrder, viewportChanged,
       timeOffsetSeconds,
       counted, countedBefore, sfSinceFinish, nOffered, pipeline>>

\* windowResized: the layout and the world-to-screen transform are rebuilt;
\* the recorded prevScreenPos keep the coordinates of the old transform.
WindowResized ==
  /\ viewportChanged' = (\E dn \in Drivers : prevScreenPos[dn])
  /\ UNCHANGED <<raceTime, isPlaying, playbackSpeed, lastBoardAbsSec,
       prevScreenPos, lapCounts, lastCrossSec, miniCounts, lastMiniCrossSec,
       lastMiniCrossSecByGate, pitOverlayActive, lastPitEntryCrossSec,
       dnfOverlayActive, frozenDrivers, freezePos, freezePending,
       raceFinishTriggered, finishLeaderDn, awaitingFlag, revealedDrivers,
       baselineMiniAtGreen, baselinedAtGreen, gapsToLeader, gapsToAhead,
       currentLeader, miniSeqTimes, lastStableGaps, lastStableGapsAhead,
       positionsByLap, lastRecordedLap, rows, frozenOrder, timeOffsetSeconds,
       counted, countedBefore, sfSinceFinish, nOffered, pipeline>>

Next == Draw \/ KeyPressedSpace \/ MousePressedSpeed \/ WindowResized

Spec == Init /\ [][Next]_vars

\* ----------------------------------------------- the replay after the finish
\* One driver's crossings of a frame, and a frame with the crossings c of
\* driver n only.
Crossing(minis, sf) == [minis |-> minis, sf |-> sf, pit |-> FALSE]
OnlyDriver(n, c) == [dn \in Drivers |-> IF dn = n THEN c ELSE NoCrossing]

\* The replay is paused before its first frame, which records the screen
\* positions at second 0, and resumed at speed 1; in the frame of second 2
\* car 24 counts a minisector crossing (before green); in the frame of second
\* 4, the baseline frame, it counts the start/finish crossing that brings
\* this pit starter to FINAL_LAP and triggers the finish.
FinishFrames ==
  LET f0 == draw([Constructed EXCEPT !.isPlaying = FALSE],
                 [dn \in Drivers |-> NoCrossing])
      f1 == draw([f0 EXCEPT !.isPlaying = TRUE, !.playbackSpeed = 1],
                 OnlyDriver(24, Crossing({0}, FALSE)))
  IN draw(f1, OnlyDriver(24, Crossing({}, TRUE)))

\* The replay from the end of those frames on; the crossings presented are
\* counted from there.
InitAfterFinish == Is([FinishFrames EXCEPT !.nOffered = 0])

SpecAfterFinish == InitAfterFinish /\ [][Next]_vars

\* ------------------------------------------- the replay with a clock offset
\* TIME_OFFSET_SECONDS is the calibration of the car clock against the board
\* clock ("keep zero unless aligning to an external clock"): one frame
\* behind, none, one frame ahead.
CalibrationOffsets == {0 - dt, TIME_OFFSET_SECONDS, dt}

InitCalibrated ==
  \E o \in CalibrationOffsets : Is([Constructed EXCEPT !.timeOffsetSeconds = o])

SpecCalibrated == InitCalibrated /\ [][Next]_vars

\* ================================================================ claims
Leaders == {dn \in Drivers : gapsToLeader[dn].type = "leader"}
carAbsSec == carAbsSecOf(State)
\* The order in which the latest frame displayed the rows.
finalRows == finalRowsOf(State, rows)

\* C1: once a driver is in frozenDrivers, every later step keeps it there
\* and keeps its freezePos.
FreezeTerminal ==
  [][\A dn \in frozenDrivers :
       dn \in frozenDrivers' /\ freezePos'[dn] = freezePos[dn]]_vars

\* A frozen driver whose rank has since moved away from its final position.
FreezeTerminalWitness ==
  \E dn \in frozenDrivers :
    /\ freezePos[dn] # Null
    /\ InSeq(rows, dn)
    /\ PosIn(rows, dn) # freezePos[dn]

\* C2 as stated: whenever some driver is revealed, exactly one driver is
\* tagged Leader in gapsToLeader, before the green flag too.
OneLeaderWheneverRevealed ==
  revealedDrivers # {} => Cardinality(Leaders) = 1

\* C2 as amended: once the baseline at green has been captured, exactly one
\* driver is tagged Leader whenever some driver is revealed.
OneLeaderAfterBaseline ==
  (baselinedAtGreen /\ revealedDrivers # {}) => Cardinality(Leaders) = 1

\* Two revealed drivers after the baseline, the leader not the first revealed.
OneLeaderWitness ==
  /\ baselinedAtGreen
  /\ Cardinality(revealedDrivers) = 2
  /\ currentLeader = 24
  /\ baselineMiniAtGreen[4] > 0

\* C3: at most one Leader tag in gapsToLeader, none while nobody is
\* revealed, and neither stable cache ever holds a Leader tag to restore.
AtMostOneLeader ==
  /\ Cardinality(Leaders) <= 1
  /\ revealedDrivers = {} => Leaders = {}
  /\ \A dn \in Drivers :
       lastStableGaps[dn].type # "leader" /\ lastStableGapsAhead[dn].type # "leader"

\* A former leader, without timestamps of its own, shows the value kept for
\* it by the cache while another driver leads.
AtMostOneLeaderWitness ==
  \E dn \in revealedDrivers :
    /\ currentLeader # Null /\ currentLeader # dn
    /\ Len(miniSeqTimes[dn]) = 0
    /\ gapsToLeader[dn].type = "time"
    /\ Cardinality(Leaders) = 1

\* C4: every crossing counted in the latest frame is at least
\* MIN_CROSSING_INTERVAL_SEC after the previous counted crossing of the same
\* gate by the same driver.
DebounceWholeSession ==
  \A e \in counted :
    \/ countedBefore[e.dn][e.gate] = NegInf
    \/ carAbsSec - countedBefore[e.dn][e.gate] >= MIN_CROSSING_INTERVAL_SEC

\* C5: miniCounts and lapCounts never decrease.
CountsMonotone ==
  [][\A dn \in Drivers :
       miniCounts'[dn] >= miniCounts[dn] /\ lapCounts'[dn] >= lapCounts[dn]]_vars

\* A frozen driver that counted minisectors before and after the baseline.
CountsMonotoneWitness ==
  \E dn \in frozenDrivers :
    /\ baselinedAtGreen
    /\ baselineMiniAtGreen[dn] > 0
    /\ miniCounts[dn] > baselineMiniAtGreen[dn]
    /\ lapCounts[dn] > 0

\* C6: every Time value of the two gap maps and the two caches is >= 0.
GapsNonNegative ==
  \A dn \in Drivers :
    \A g \in {gapsToLeader[dn], gapsToAhead[dn],
              lastStableGaps[dn], lastStableGapsAhead[dn]} :
      g.type = "time" => g.gapSec >= 0

\* A ranked driver whose latest timestamp is earlier than the leader's
\* timestamp at the same ordinal index.
GapsNonNegativeWitness ==
  \E dn \in revealedDrivers :
    /\ currentLeader # Null /\ currentLeader # dn
    /\ Len(miniSeqTimes[dn]) > 0
    /\ Len(miniSeqTimes[currentLeader]) >= Len(miniSeqTimes[dn])
    /\ miniSeqTimes[dn][Len(miniSeqTimes[dn])]
         < miniSeqTimes[currentLeader][Len(miniSeqTimes[dn])]
    /\ gapsToLeader[dn] = GapTime(0)

\* C7: a second run of the gap engine right after a first one changes
\* neither map, nor currentLeader, nor either cache.
GapEngineIdempotent ==
  LET s1 == recomputeGapsSFandMinisectors(State)
      s2 == recomputeGapsSFandMinisectors(s1)
  IN /\ s2.gapsToLeader = s1.gapsToLeader
     /\ s2.gapsToAhead = s1.gapsToAhead
     /\ s2.currentLeader = s1.currentLeader
     /\ s2.lastStableGaps = s1.lastStableGaps
     /\ s2.lastStableGapsAhead = s1.lastStableGapsAhead

\* A state in which the engine restores a value from the cache.
GapEngineIdempotentWitness ==
  \E dn \in revealedDrivers :
    /\ baselinedAtGreen
    /\ currentLeader # dn
    /\ Len(miniSeqTimes[dn]) = 0
    /\ recomputeGapsSFandMinisectors(State).gapsToLeader[dn] = lastStableGaps[dn]
    /\ lastStableGaps[dn].type = "time"

\* C8: after another driver triggered the finish, a driver below FINAL_LAP
\* that is not DNF is not frozen before a counted start/finish crossing of
\* its own that follows the trigger.
NoInstantFreeze ==
  \A dn \in Drivers :
    (/\ raceFinishTriggered /\ dn # finishLeaderDn
     /\ lapNumOf(State, dn) < FINAL_LAP
     /\ ~dnfOverlayActive[dn]
     /\ dn \notin sfSinceFinish) => dn \notin frozenDrivers

\* A driver still waiting for the flag at the end of a frame that follows
\* the trigger frame (no start/finish crossing was counted in it).
NoInstantFreezeWitness ==
  \E dn \in revealedDrivers :
    /\ raceFinishTriggered /\ dn # finishLeaderDn
    /\ awaitingFlag[dn] /\ dn \notin frozenDrivers
    /\ lapNumOf(State, dn) < FINAL_LAP
    /\ ~dnfOverlayActive[dn]
    /\ \A e \in counted : e.gate # SFGate
    /\ pipeline # <<>>

\* C9: the ranked list holds exactly the revealed drivers, each once; the
\* revealed drivers are those with a counted minisector crossing, never a
\* driver without samples; and the revealed set never shrinks.
RankedAreRevealed ==
  /\ [](/\ {rows[i] : i \in 1..Len(rows)} = revealedDrivers
        /\ Len(rows) = Cardinality(revealedDrivers)
        /\ revealedDrivers = {dn \in Drivers : miniCounts[dn] > 0}
        /\ revealedDrivers \cap NoSampleDrivers = {})
  /\ [][revealedDrivers \subseteq revealedDrivers']_vars

\* Both cars with samples are ranked, the finish has flagged the car
\* without samples, and that car is not in the list.
RankedAreRevealedWitness ==
  /\ Len(rows) = 2
  /\ raceFinishTriggered
  /\ \E dn \in NoSampleDrivers : awaitingFlag[dn] /\ ~InSeq(rows, dn)

\* C10: every miniSeqTimes sequence is strictly increasing.
MiniSeqStrictlyIncreasing ==
  \A dn \in Drivers :
    \A i \in 1..Len(miniSeqTimes[dn]) : \A j \in 1..Len(miniSeqTimes[dn]) :
      i < j => miniSeqTimes[dn][i] < miniSeqTimes[dn][j]

\* C11: from the frame in which a displayed driver's DNF overlay is active,
\* the row at which the board displays that driver never changes.
DnfRowStays ==
  [][\A dn \in Drivers :
       (dnfOverlayActive[dn] /\ InSeq(finalRows, dn)) =>
         (InSeq(finalRows', dn) /\ PosIn(finalRows', dn) = PosIn(finalRows, dn))]_vars

\* C12: a frame executed while paused leaves raceTime, the lap and
\* minisector counts, miniSeqTimes, the debounce stamps, the revealed set,
\* the pit and DNF flags, both gap maps, the frozen set, the final positions
\* and the position-by-lap history as they were.
PauseSideEffectFree ==
  [][~isPlaying =>
       UNCHANGED <<raceTime, lapCounts, miniCounts, miniSeqTimes,
                   lastCrossSec, lastMiniCrossSecByGate, lastPitEntryCrossSec,
                   revealedDrivers, pitOverlayActive, dnfOverlayActive,
                   gapsToLeader, gapsToAhead, frozenDrivers, freezePos,
                   positionsByLap>>]_vars

\* C13: within the latest frame, no run of the gap engine precedes the end
\* of crossing detection for all drivers or the building of the ranking, and
\* no evaluation of the freeze conditions precedes a run of the gap engine.
PipelineStrict ==
  \A i \in 1..Len(pipeline) :
    /\ pipeline[i] = "gap" =>
          /\ \E j \in 1..(i - 1) : pipeline[j] = "detected"
          /\ \E j \in 1..(i - 1) : pipeline[j] = "rank"
    /\ pipeline[i] = "freeze" =>
          \A j \in (i + 1)..Len(pipeline) : pipeline[j] # "gap"

\* The step is a frame: the handlers change isPlaying or playbackSpeed, or
\* leave viewportChanged set.
FrameStep ==
  isPlaying' = isPlaying /\ playbackSpeed' = playbackSpeed /\ ~viewportChanged'

\* The drivers whose counted start/finish crossing of the step brought their
\* numeric lap to FINAL_LAP or more.
ReachedFinalLap ==
  {dn \in Drivers :
     /\ [dn |-> dn, gate |-> SFGate] \in counted'
     /\ numericLap(lapCounts'[dn], dn \in PIT_START_DRIVERS) >= FINAL_LAP}

\* C14: the first counted start/finish crossing that brings a driver to
\* FINAL_LAP sets raceFinishTriggered, makes that driver the finish leader
\* and flags every other driver that is not frozen; from then on the flag
\* stays set and the finish leader stays the same.
FinishOneShot ==
  [][/\ raceFinishTriggered =>
          raceFinishTriggered' /\ finishLeaderDn' = finishLeaderDn
     /\ (~raceFinishTriggered /\ FrameStep /\ ReachedFinalLap # {}) =>
          raceFinishTriggered'
     /\ (~raceFinishTriggered /\ raceFinishTriggered') =>
          /\ finishLeaderDn' \in ReachedFinalLap
          /\ \A i \in 1..Len(DRIVER_NUMS) :
               DRIVER_NUMS[i] \in ReachedFinalLap =>
                 PosIn(DRIVER_NUMS, finishLeaderDn') <= i
          /\ \A dn \in Drivers \ {finishLeaderDn'} :
               dn \notin frozenDrivers =>
                 \/ awaitingFlag'[dn]
                 \/ [dn |-> dn, gate |-> SFGate] \in counted'
     /\ ~raceFinishTriggered =>
          \A dn \in Drivers : lapNumOf(State, dn) < FINAL_LAP]_vars

\* A second driver has reached FINAL_LAP after the trigger, in a later
\* frame, and the finish leader is still the first one.
FinishOneShotWitness ==
  /\ raceFinishTriggered
  /\ \E dn \in Drivers \ {finishLeaderDn} :
       /\ lapNumOf(State, dn) >= FINAL_LAP
       /\ lastCrossSec[dn] > lastCrossSec[finishLeaderDn]
       /\ ~awaitingFlag[dn]
  /\ \E dn \in Drivers : awaitingFlag[dn]

\* The step counted a start/finish crossing of dn made while dn was flagged
\* awaitingFlag: flagged before the frame, or by a driver processed earlier
\* in the frame.
CrossedWhileFlagged(dn) ==
  /\ [dn |-> dn, gate |-> SFGate] \in counted'
  /\ \/ awaitingFlag[dn]
     \/ /\ ~raceFinishTriggered /\ raceFinishTriggered'
        /\ PosIn(DRIVER_NUMS, finishLeaderDn') < PosIn(DRIVER_NUMS, dn)

\* C15: a revealed, not yet frozen driver that counts a start/finish
\* crossing while flagged awaitingFlag, or whose crossing brings its numeric
\* lap to FINAL_LAP, is frozen at the end of that frame, with its rank in the
\* frame's ranking as final position and its pit overlay off.
FreezeCommit ==
  [][\A dn \in revealedDrivers' \ frozenDrivers :
       (FrameStep /\ (CrossedWhileFlagged(dn) \/ dn \in ReachedFinalLap)) =>
         /\ dn \in frozenDrivers'
         /\ freezePos'[dn] \in 1..Len(rows')
         /\ rows'[freezePos'[dn]] = dn
         /\ ~pitOverlayActive'[dn]]_vars

\* A driver below FINAL_LAP froze in the latest frame by its own crossing
\* after the finish had been triggered.
FreezeCommitWitness ==
  \E dn \in frozenDrivers :
    /\ lapNumOf(State, dn) < FINAL_LAP
    /\ [dn |-> dn, gate |-> SFGate] \in counted
    /\ InSeq(rows, dn) /\ freezePos[dn] = PosIn(rows, dn)
    /\ dn # finishLeaderDn

\* The order the gap engine computes in the current state.
gapOrder == SortStable(State, RevealedOf(State, lapCountsKeys))

\* In seq, of two drivers level on rawMini the one whose last minisector
\* crossing is the more recent comes first.
MostRecentFirst(seq) ==
  \A i \in 1..Len(seq) : \A j \in 1..Len(seq) :
    (i < j /\ rawMiniOf(State, seq[i]) = rawMiniOf(State, seq[j])) =>
      lastMiniCrossSec[seq[i]] >= lastMiniCrossSec[seq[j]]

\* C16: among drivers with equal rawMini, the one that crossed a minisector
\* most recently ranks ahead, in the gap engine's order and in the rows of
\* the leaderboard.
TieBreakMostRecentFirst ==
  MostRecentFirst(gapOrder) /\ MostRecentFirst(rows)

\* The gap the same-ordinal comparison gives e against the driver ref.
SameOrdinalGapOf(e, ref) ==
  LET idx == Len(miniSeqTimes[e])
  IN GapTime(Max(0, miniSeqTimes[e][idx] - miniSeqTimes[ref][idx]))

\* C17: after the baseline, for every ranked driver e behind the leader
\* with timestamps of its own and idx its last index: if the leader has a
\* timestamp at idx, gapsToLeader[e] is Time(max(0, e[idx] - leader[idx]));
\* gapsToAhead[e] is the same comparison against the driver ranked
\* immediately ahead.  A further run of the gap engine gives the same maps.
SameOrdinalGap ==
  baselinedAtGreen =>
    /\ \A k \in 2..Len(gapOrder) :
         LET e == gapOrder[k]
             idx == Len(miniSeqTimes[e])
         IN idx > 0 =>
              /\ Len(miniSeqTimes[gapOrder[1]]) >= idx =>
                    gapsToLeader[e] = SameOrdinalGapOf(e, gapOrder[1])
              /\ Len(miniSeqTimes[gapOrder[k - 1]]) >= idx =>
                    gapsToAhead[e] = SameOrdinalGapOf(e, gapOrder[k - 1])
    /\ recomputeGapsSFandMinisectors(State).gapsToLeader = gapsToLeader
    /\ recomputeGapsSFandMinisectors(State).gapsToAhead = gapsToAhead

\* A driver with one timestamp is compared with the first timestamp of a
\* leader that has two, and the gap is positive.
SameOrdinalGapWitness ==
  \E e \in revealedDrivers :
    /\ currentLeader # Null /\ currentLeader # e
    /\ Len(miniSeqTimes[e]) = 1
    /\ Len(miniSeqTimes[currentLeader]) = 2
    /\ miniSeqTimes[currentLeader][2] > miniSeqTimes[e][1]
    /\ gapsToLeader[e] = GapTime(miniSeqTimes[e][1] - miniSeqTimes[currentLeader][1])
    /\ gapsToLeader[e].gapSec > 0

\* The current state with the leader's timestamps cut off before the last
\* ordinal index of dn: the leader has no timestamp at that index.
LeaderDataMissing(dn) ==
  [State EXCEPT !.miniSeqTimes[currentLeader] =
     SubSeq(@, 1, Len(miniSeqTimes[dn]) - 1)]

\* C18: after the baseline a gapsToLeader value that is a Time (or the
\* Leader tag) is never followed by Unavailable; and a run of the gap engine
\* in which the leader has no timestamp at the index of a driver that shows
\* a Time keeps that driver on the Time value of its lastStableGaps entry.
NoFlickerToNA ==
  /\ [][\A dn \in Drivers :
          (baselinedAtGreen /\ gapsToLeader[dn].type \in {"time", "leader"}) =>
            gapsToLeader'[dn].type \in {"time", "leader"}]_vars
  /\ [](\A dn \in Drivers :
          (/\ baselinedAtGreen /\ currentLeader # Null /\ dn # currentLeader
           /\ gapsToLeader[dn].type = "time"
           /\ Len(miniSeqTimes[dn]) > 0) =>
            LET g == recomputeGapsSFandMinisectors(LeaderDataMissing(dn)).gapsToLeader[dn]
            IN g.type = "time" /\ g = lastStableGaps[dn])

\* A driver shows a positive Time gap computed from timestamps, and keeps
\* it when the leader's timestamps are missing.
NoFlickerToNAWitness ==
  \E dn \in revealedDrivers :
    /\ baselinedAtGreen /\ currentLeader # Null /\ dn # currentLeader
    /\ Len(miniSeqTimes[dn]) > 0
    /\ gapsToLeader[dn].type = "time" /\ gapsToLeader[dn].gapSec > 0
    /\ recomputeGapsSFandMinisectors(LeaderDataMissing(dn)).gapsToLeader[dn]
         = gapsToLeader[dn]

\* C19: a driver other than the leader whose gapsToLeader value is Time(0)
\* has a timestamp at its last ordinal index and the leader has, at the same
\* index, a timestamp that is greater or equal; a driver without timestamps
\* never shows Time(0).
ZeroGapIsMeasured ==
  \A dn \in Drivers :
    (dn # currentLeader /\ gapsToLeader[dn] = GapTime(0)) =>
      LET idx == Len(miniSeqTimes[dn])
      IN /\ idx > 0
         /\ currentLeader # Null
         /\ Len(miniSeqTimes[currentLeader]) >= idx
         /\ miniSeqTimes[currentLeader][idx] >= miniSeqTimes[dn][idx]

\* C20: no frozen driver has its pit overlay active.
FrozenNotInPit ==
  \A dn \in frozenDrivers : ~pitOverlayActive[dn]

\* A driver froze in the frame in which it also counted a pit-entry crossing.
FrozenNotInPitWitness ==
  \E dn \in frozenDrivers :
    /\ [dn |-> dn, gate |-> PitGate] \in counted
    /\ [dn |-> dn, gate |-> SFGate] \in counted
    /\ lastPitEntryCrossSec[dn] = lastCrossSec[dn]
    /\ freezePos[dn] # Null

\* The latest frame counted a minisector crossing of dn.
MiniCountedIn(cnt, dn) == \E gi \in Gates : [dn |-> dn, gate |-> MiniGate(gi)] \in cnt

\* C21: at the end of a frame in which a driver counted a minisector
\* crossing its pit overlay is off, also when the frame counted a pit-entry
\* crossing of that driver; an active pit overlay is switched off only by a
\* frame with such a crossing, by the driver's freeze or by the baseline at
\* green.
PitOverlayClearing ==
  /\ [](\A dn \in Drivers : MiniCountedIn(counted, dn) => ~pitOverlayActive[dn])
  /\ [][\A dn \in Drivers :
          (pitOverlayActive[dn] /\ ~pitOverlayActive'[dn]) =>
            \/ FrameStep /\ MiniCountedIn(counted', dn)
            \/ dn \in frozenDrivers' \ frozenDrivers
            \/ ~baselinedAtGreen /\ baselinedAtGreen']_vars

\* A driver counted a pit-entry crossing and a minisector crossing in the
\* same frame, after the baseline, and is not frozen.
PitOverlayClearingWitness ==
  \E dn \in Drivers \ frozenDrivers :
    /\ baselinedAtGreen
    /\ [dn |-> dn, gate |-> PitGate] \in counted
    /\ MiniCountedIn(counted, dn)
    /\ lastPitEntryCrossSec[dn] = lastMiniCrossSec[dn]
    /\ ~pitOverlayActive[dn]

\* C22: a driver that is DNF and ranked last in the latest frame's ranking
\* is frozen at the end of that frame, whichever driver it is and however
\* many drivers are ranked.
DnfLastFrozen ==
  \A dn \in Drivers :
    (/\ dnfOverlayActive[dn]
     /\ InSeq(rows, dn)
     /\ PosIn(rows, dn) = Len(rows)) => dn \in frozenDrivers

\* C23: a snapshot positionsByLap[L], once written, is never written again,
\* and lastRecordedLap never decreases.
SnapshotOncePerLap ==
  [][/\ lastRecordedLap' >= lastRecordedLap
     /\ \A lap \in DOMAIN positionsByLap :
          positionsByLap[lap] # <<>> => positionsByLap'[lap] = positionsByLap[lap]]_vars

\* fr shows every driver of rws in exactly one slot and has no empty slot.
IsPermutationOf(fr, rws) ==
  /\ Len(fr) = Len(rws)
  /\ \A i \in 1..Len(fr) : fr[i] # Null
  /\ \A k \in 1..Len(rws) :
       Cardinality({i \in 1..Len(fr) : fr[i] = rws[k]}) = 1

\* The sequences without repetition of the drivers of a set.
DistinctSeqs(S) ==
  {q \in UNION {[1..n -> S] : n \in 0..Cardinality(S)} :
     \A i \in 1..Len(q) : \A j \in 1..Len(q) : i # j => q[i] # q[j]}

\* The board built from the current ranking when the drivers of order froze
\* in that order with the final positions fpos.
BoardWith(order, fpos) ==
  finalRowsOf([State EXCEPT
                 !.frozenOrder = order,
                 !.frozenDrivers = {order[i] : i \in 1..Len(order)},
                 !.freezePos = [dn \in Drivers |->
                    IF dn \in DOMAIN fpos THEN fpos[dn] ELSE Null]],
              rows)

\* C24: the displayed order is a permutation of the ranked drivers: in the
\* latest frame, and for every set of frozen ranked drivers, every order in
\* which they froze and every final position (absent, equal for two drivers
\* or beyond the number of rows included).
DisplayedIsPermutation ==
  [](/\ IsPermutationOf(finalRows, rows)
     /\ \A order \in DistinctSeqs(revealedDrivers) :
          \A fpos \in [revealedDrivers -> 0..(Len(rows) + 1)] :
            IsPermutationOf(BoardWith(order, fpos), rows))

\* A frozen driver is pinned at a slot that is not its rank, and an active
\* driver fills the other slot.
DisplayedIsPermutationWitness ==
  /\ Len(rows) = 2
  /\ finalRows # rows
  /\ \E dn \in frozenDrivers : InSeq(rows, dn)
  /\ \E dn \in revealedDrivers : dn \notin frozenDrivers

\* C25: no two frozen drivers have the same final position.
FinalPositionsUnique ==
  \A a \in frozenDrivers : \A b \in frozenDrivers :
    (a # b /\ freezePos[a] # Null /\ freezePos[b] # Null) =>
      freezePos[a] # freezePos[b]

\* C26: a driver that was ranked when it froze is displayed, in every later
\* frame, at the row given by its freezePos.
FrozenShownAtFinalPosition ==
  \A dn \in frozenDrivers :
    (freezePos[dn] # Null /\ InSeq(rows, dn)) =>
      (InSeq(finalRows, dn) /\ PosIn(finalRows, dn) = freezePos[dn])

\* C27: after the baseline, at the end of every frame with a ranked driver,
\* the driver tagged Leader in gapsToLeader is the driver displayed in row 1.
LeaderIsRowOne ==
  (baselinedAtGreen /\ rows # <<>>) => Leaders = {finalRows[1]}

\* C28: after the baseline, every driver has as many timestamps in
\* miniSeqTimes as minisector crossings counted since the baseline, so the
\* first-ranked driver has a timestamp at every ordinal index at which
\* another ranked driver has one; also when the car clock and the board clock
\* reach the green flag in different frames.
OrdinalAlignment ==
  baselinedAtGreen =>
    /\ \A dn \in Drivers :
         Len(miniSeqTimes[dn]) = miniCounts[dn] - baselineMiniAtGreen[dn]
    /\ \A k \in 2..Len(gapOrder) :
         Len(miniSeqTimes[gapOrder[1]]) >= Len(miniSeqTimes[gapOrder[k]])

\* DRIVER_NUMS with the drivers declared in the opposite order.
ReverseOf(seq) == [i \in 1..Len(seq) |-> seq[Len(seq) + 1 - i]]

\* C29: the frozen set, the awaitingFlag flags and the final positions at
\* the end of a frame do not depend on the order in which the frame takes
\* the drivers: every frame the replay can run from the current state ends
\* with the same values when the drivers are taken in the opposite order.
ProcessingOrderIndependent ==
  (isPlaying => raceTime + dt * playbackSpeed <= MaxTime) =>
    \A inputs \in FrameInputs :
      LET a == drawIn(State, inputs, DRIVER_NUMS)
          b == drawIn(State, inputs, ReverseOf(DRIVER_NUMS))
      IN /\ a.frozenDrivers = b.frozenDrivers
         /\ a.awaitingFlag = b.awaitingFlag
         /\ a.freezePos = b.freezePos

\* C30: once the race has started, the lap number of the header
\* ("Lap: X / FINAL_LAP") is at most FINAL_LAP.
LapHeaderWithinFinalLap ==
  boardAbsSecOf(State) >= RACE_START_ABS_SEC =>
    lapHeaderNumeric(State) <= FINAL_LAP

====
